---- MODULE Spec2Model ----
(***************************************************************************)
(* Model of public/scripts/discover.py: the buyNow comparison report.      *)
(*                                                                         *)
(* JSON values are records [t, b, n, s]: t is the JSON/Python type, b the  *)
(* boolean, n the integer (or the length of a list / size of a mapping     *)
(* used as a leaf), s the characters of a string.  A Python float is a     *)
(* record [k, num, den]: k = "fin" for the float nearest the quotient      *)
(* num/den (lowest terms, den > 0), which the record holds exactly, "nan", *)
(* "inf", "ninf", and "err" for a float() call that raised.  Binary64      *)
(* gives the bits of the float such a quotient rounds to.                  *)
(***************************************************************************)
EXTENDS Integers, Sequences, FiniteSets, TLC

\* ---------------------------------------------------------------- bounds
MaxRows == 3     \* longest record list handed to summarize by a caller
MaxEvents == 3   \* longest events[] array in the input document
MaxNum == 2      \* the R values handed to summarize range over -1..MaxNum
MaxArgc == 3     \* len(sys.argv) ranges over 1..MaxArgc

\* significant bits of a Python float (IEEE 754 binary64)
MantissaBits == 53

\* ------------------------------------------------------------ JSON values
JV(t, b, n, s) == [t |-> t, b |-> b, n |-> n, s |-> s]
Absent == JV("absent", FALSE, 0, <<>>)      \* key not in the mapping
NoneV == JV("null", FALSE, 0, <<>>)         \* JSON null / Python None
Bool(b) == JV("bool", b, 0, <<>>)
Num(n) == JV("num", FALSE, n, <<>>)
NaNLit == JV("nan", FALSE, 0, <<>>)         \* json accepts the literal NaN
InfLit == JV("inf", FALSE, 0, <<>>)         \* ... and Infinity
Str(s) == JV("str", FALSE, 0, s)
List(len) == JV("list", FALSE, len, <<>>)
Map(size) == JV("map", FALSE, size, <<>>)

sWIN == <<"W", "I", "N">>
sLOSS == <<"L", "O", "S", "S">>
sTARGET == <<"T", "A", "R", "G", "E", "T">>
sSTOP == <<"S", "T", "O", "P">>
sTIME == <<"T", "I", "M", "E">>
sOTHER == <<"B", "E">>
sABC == <<"a", "b", "c">>
sTWO == <<"2">>
sMINUS1 == <<"-", "1">>
sINF == <<"i", "n", "f">>
sNAN == <<"n", "a", "n">>
sTRUE == <<"t", "r", "u", "e">>

\* Python truthiness, as used by `x or {}`
Truthy(v) ==
  CASE v.t = "absent" -> FALSE
    [] v.t = "null" -> FALSE
    [] v.t = "bool" -> v.b
    [] v.t = "num" -> v.n # 0
    [] v.t = "nan" -> TRUE
    [] v.t = "inf" -> TRUE
    [] v.t = "str" -> Len(v.s) > 0
    [] v.t = "list" -> v.n > 0
    [] v.t = "map" -> v.n > 0

\* hash(v) succeeds: lists and mappings are unhashable
Hashable(v) == v.t \notin {"list", "map"}

\* ----------------------------------------------------------------- floats
RECURSIVE GCD(_, _)
GCD(a, b) == IF b = 0 THEN a ELSE GCD(b, a % b)

Abs(x) == IF x < 0 THEN -x ELSE x

FinRaw(n, d) == [k |-> "fin", num |-> n, den |-> d]
Fin(n, d) ==
  LET g == GCD(Abs(n), Abs(d))
      sg == IF d < 0 THEN -1 ELSE 1
  IN FinRaw(sg * (n \div g), sg * (d \div g))
NaN == [k |-> "nan", num |-> 0, den |-> 1]
Inf == [k |-> "inf", num |-> 0, den |-> 1]
NegInf == [k |-> "ninf", num |-> 0, den |-> 1]
FErr == [k |-> "err", num |-> 0, den |-> 1]
Zero == FinRaw(0, 1)

isfinite(x) == x.k = "fin"

\* sign of a float: -1, 0, 1; NaN compares false with everything (sign 2)
Sign(x) ==
  CASE x.k = "fin" -> (IF x.num > 0 THEN 1 ELSE IF x.num < 0 THEN -1 ELSE 0)
    [] x.k = "inf" -> 1
    [] x.k = "ninf" -> -1
    [] OTHER -> 2
GtZero(x) == Sign(x) = 1
LtZero(x) == Sign(x) = -1

FNeg(x) ==
  CASE x.k = "fin" -> Fin(-x.num, x.den)
    [] x.k = "inf" -> NegInf
    [] x.k = "ninf" -> Inf
    [] OTHER -> x

FAdd(x, y) ==
  CASE x.k = "nan" \/ y.k = "nan" -> NaN
    [] x.k = "fin" /\ y.k = "fin" -> Fin(x.num * y.den + y.num * x.den, x.den * y.den)
    [] x.k = "fin" -> y
    [] y.k = "fin" -> x
    [] x.k = y.k -> x
    [] OTHER -> NaN

FSub(x, y) == FAdd(x, FNeg(y))

\* x / y for y # 0 (the callers never divide by zero)
FDiv(x, y) ==
  CASE x.k = "nan" \/ y.k = "nan" -> NaN
    [] x.k = "fin" /\ y.k = "fin" -> Fin(x.num * y.den, x.den * y.num)
    [] x.k = "fin" -> Zero
    [] y.k = "fin" -> (IF Sign(x) * Sign(y) > 0 THEN Inf ELSE NegInf)
    [] OTHER -> NaN

\* float(s) for a string: optional sign, then decimal digits, "inf" or
\* "nan"; anything else raises ValueError
DigitVal == [c \in {"0", "1", "2", "3", "4", "5", "6", "7", "8", "9"} |->
  CASE c = "0" -> 0 [] c = "1" -> 1 [] c = "2" -> 2 [] c = "3" -> 3
    [] c = "4" -> 4 [] c = "5" -> 5 [] c = "6" -> 6 [] c = "7" -> 7
    [] c = "8" -> 8 [] c = "9" -> 9]

RECURSIVE DigitsValue(_, _)
DigitsValue(s, acc) ==
  IF s = <<>> THEN acc ELSE DigitsValue(Tail(s), 10 * acc + DigitVal[Head(s)])

AllDigits(s) == Len(s) > 0 /\ \A i \in 1..Len(s) : s[i] \in DOMAIN DigitVal

ParseUnsigned(s) ==
  IF AllDigits(s) THEN Fin(DigitsValue(s, 0), 1)
  ELSE IF s = sINF THEN Inf
  ELSE IF s = sNAN THEN NaN
  ELSE FErr

ParseFloat(s) ==
  IF s = <<>> THEN FErr
  ELSE IF Head(s) = "-" THEN
    (LET u == ParseUnsigned(Tail(s)) IN IF u.k = "err" THEN FErr ELSE FNeg(u))
  ELSE IF Head(s) = "+" THEN ParseUnsigned(Tail(s))
  ELSE ParseUnsigned(s)

\* float(v): raises (FErr) for None, lists, mappings and unparsable strings
ToFloat(v) ==
  CASE v.t = "num" -> Fin(v.n, 1)
    [] v.t = "bool" -> (IF v.b THEN Fin(1, 1) ELSE Zero)
    [] v.t = "nan" -> NaN
    [] v.t = "inf" -> Inf
    [] v.t = "str" -> ParseFloat(v.s)
    [] OTHER -> FErr

\* ---------------------------------------------------------- trade records
\* A nested value (signal / simulation / risk): v is the JSON value stored
\* under the key, m its consumed fields when v is a mapping.
NoSignalFields == [buyNow |-> Absent]
NoSimFields == [R |-> Absent, result |-> Absent, exitType |-> Absent,
                returnPct |-> Absent, holdingDays |-> Absent,
                maePct |-> Absent, mfePct |-> Absent]
NoRiskFields == [rrAtEntry |-> Absent]

Present(m) == Cardinality({key \in DOMAIN m : m[key].t # "absent"})

SignalMap(bn) == LET m == [buyNow |-> bn] IN [v |-> Map(Present(m)), m |-> m]
SignalOther(v) == [v |-> v, m |-> NoSignalFields]
SimMap(R, result, exitType, aux) ==
  LET m == [R |-> R, result |-> result, exitType |-> exitType,
            returnPct |-> aux[1], holdingDays |-> aux[2],
            maePct |-> aux[3], mfePct |-> aux[4]]
  IN [v |-> Map(Present(m)), m |-> m]
SimOther(v) == [v |-> v, m |-> NoSimFields]
RiskMap(rr) == LET m == [rrAtEntry |-> rr] IN [v |-> Map(Present(m)), m |-> m]
RiskOther(v) == [v |-> v, m |-> NoRiskFields]

NoAux == <<Absent, Absent, Absent, Absent>>

\* a trade record that is a JSON object
Rec(signal, simulation, risk) ==
  [t |-> "map", signal |-> signal, simulation |-> simulation, risk |-> risk]
\* an element of events[] that is not an object (here: a number)
NotARecord ==
  [t |-> "num", signal |-> SignalOther(Absent), simulation |-> SimOther(Absent),
   risk |-> RiskOther(Absent)]

\* (r.get(name) or {}).get(key) raises AttributeError: r has no .get, or the
\* value under name is truthy and has no .get
NestedRaises(r, name) ==
  r.t # "map" \/ (Truthy(r[name].v) /\ r[name].v.t # "map")

\* (r.get(name) or {}).get(key) when it does not raise: None for a missing key
NestedGet(r, name, key) ==
  IF Truthy(r[name].v) /\ r[name].m[key].t # "absent" THEN r[name].m[key] ELSE NoneV

\* ------------------------------------------------------------- aggregates
\* pct with the zero-denominator guard giving 0 instead of NaN
pct_zero(n, d) == IF d # 0 THEN Fin(100 * n, d) ELSE Zero

\* pct without the factor 100
pct_fraction(n, d) == IF d # 0 THEN Fin(n, d) ELSE NaN

\* pct(n, d)
pct(n, d) == IF d # 0 THEN Fin(100 * n, d) ELSE NaN

\* The IEEE 754 binary64 value pct returns for a quotient q = num/den >= 0:
\* the float nearest q (ties to even), as its integer part ip and the bits
\* of its fraction, most significant first.
RECURSIVE BitLen(_)
BitLen(n) == IF n = 0 THEN 0 ELSE 1 + BitLen(n \div 2)

RECURSIVE LeadZeros(_, _)
LeadZeros(r, den) == IF 2 * r >= den THEN 0 ELSE 1 + LeadZeros(2 * r, den)

\* k steps of the long division of r by den in base 2
RECURSIVE FracBits(_, _, _)
FracBits(r, den, k) ==
  IF k = 0 THEN [bits |-> <<>>, rem |-> r]
  ELSE LET rest == FracBits((2 * r) % den, den, k - 1)
       IN [bits |-> <<(2 * r) \div den>> \o rest.bits, rem |-> rest.rem]

\* bits + one unit in the last place
RECURSIVE IncBits(_)
IncBits(bits) ==
  IF bits = <<>> THEN [bits |-> <<>>, carry |-> 1]
  ELSE LET n == Len(bits)
           front == SubSeq(bits, 1, n - 1)
       IN IF bits[n] = 0 THEN [bits |-> Append(front, 1), carry |-> 0]
          ELSE LET f == IncBits(front)
               IN [bits |-> Append(f.bits, 0), carry |-> f.carry]

Binary64(q) ==
  LET ip == q.num \div q.den
      r0 == q.num % q.den
      k == IF ip > 0 THEN MantissaBits - BitLen(ip)
           ELSE IF r0 = 0 THEN 0
           ELSE LeadZeros(r0, q.den) + MantissaBits
      fb == FracBits(r0, q.den, k)
      odd == IF k > 0 THEN fb.bits[k] = 1 ELSE ip % 2 = 1
      up == 2 * fb.rem > q.den \/ (2 * fb.rem = q.den /\ odd)
      inc == IncBits(fb.bits)
  IN IF up THEN [ip |-> ip + inc.carry, bits |-> inc.bits]
     ELSE [ip |-> ip, bits |-> fb.bits]

\* the ys list with a failed coercion appended as 0.0 instead of skipped
RECURSIVE FiniteFloats_zero(_)
FiniteFloats_zero(xs) ==
  IF xs = <<>> THEN <<>>
  ELSE LET y == ToFloat(Head(xs))
       IN IF isfinite(y) THEN <<y>> \o FiniteFloats_zero(Tail(xs))
          ELSE IF y.k = "err" THEN <<Zero>> \o FiniteFloats_zero(Tail(xs))
          ELSE FiniteFloats_zero(Tail(xs))

\* the ys list of safe_mean / safe_median: float(v) for the values that
\* coerce and are finite, in order
RECURSIVE FiniteFloats(_)
FiniteFloats(xs) ==
  IF xs = <<>> THEN <<>>
  ELSE LET y == ToFloat(Head(xs))
       IN IF isfinite(y) THEN <<y>> \o FiniteFloats(Tail(xs))
          ELSE FiniteFloats(Tail(xs))

RECURSIVE FSum(_)
FSum(ys) == IF ys = <<>> THEN Zero ELSE FAdd(Head(ys), FSum(Tail(ys)))

\* safe_mean dividing by len(xs) instead of len(ys)
safe_mean_len_xs(xs) ==
  LET ys == FiniteFloats(xs)
  IN IF ys # <<>> THEN FDiv(FSum(ys), Fin(Len(xs), 1)) ELSE NaN

safe_mean(xs) ==
  LET ys == FiniteFloats(xs)
  IN IF ys # <<>> THEN FDiv(FSum(ys), Fin(Len(ys), 1)) ELSE NaN

FLess(x, y) == x.num * y.den < y.num * x.den

RECURSIVE Insert(_, _)
Insert(y, sorted) ==
  IF sorted = <<>> THEN <<y>>
  ELSE IF FLess(y, Head(sorted)) THEN <<y>> \o sorted
  ELSE <<Head(sorted)>> \o Insert(y, Tail(sorted))

RECURSIVE Sorted(_)
Sorted(ys) == IF ys = <<>> THEN <<>> ELSE Insert(Head(ys), Sorted(Tail(ys)))

\* statistics.median of a non-empty list
median(ys) ==
  LET data == Sorted(ys)
      n == Len(data)
      i == n \div 2
  IN IF n % 2 = 1 THEN data[i + 1]
     ELSE FDiv(FAdd(data[i], data[i + 1]), Fin(2, 1))

safe_median(xs) ==
  LET ys == FiniteFloats(xs)
  IN IF ys # <<>> THEN median(ys) ELSE NaN

\* the loop of profit_factor with a failed coercion counted as 1.0
RECURSIVE PFLoop_one(_, _, _, _)
PFLoop_one(rows, i, gains, losses) ==
  IF i > Len(rows) THEN <<gains, losses>>
  ELSE LET raw == ToFloat(NestedGet(rows[i], "simulation", "R"))
           R == IF raw.k = "err" THEN Fin(1, 1) ELSE raw
       IN IF GtZero(R) THEN PFLoop_one(rows, i + 1, FAdd(gains, R), losses)
          ELSE IF LtZero(R) THEN PFLoop_one(rows, i + 1, gains, FAdd(losses, FNeg(R)))
          ELSE PFLoop_one(rows, i + 1, gains, losses)

\* one pass of the loop of profit_factor over rows[i..]
RECURSIVE PFLoop(_, _, _, _)
PFLoop(rows, i, gains, losses) ==
  IF i > Len(rows) THEN <<gains, losses>>
  ELSE LET raw == ToFloat(NestedGet(rows[i], "simulation", "R"))
           R == IF raw.k = "err" THEN Zero ELSE raw
       IN IF GtZero(R) THEN PFLoop(rows, i + 1, FAdd(gains, R), losses)
          ELSE IF LtZero(R) THEN PFLoop(rows, i + 1, gains, FAdd(losses, FNeg(R)))
          ELSE PFLoop(rows, i + 1, gains, losses)

\* profit_factor giving NaN whenever there are no gains
profit_factor_nan_without_gains(rows) ==
  LET gl == PFLoop(rows, 1, Zero, Zero)
      gains == gl[1]
      losses == gl[2]
  IN IF gains = Zero THEN NaN
     ELSE IF losses = Zero THEN Inf
     ELSE FDiv(gains, losses)

profit_factor(rows) ==
  LET gl == PFLoop(rows, 1, Zero, Zero)
      gains == gl[1]
      losses == gl[2]
  IN IF losses = Zero THEN (IF GtZero(gains) THEN Inf ELSE NaN)
     ELSE FDiv(gains, losses)

Column(rows, name, key) == [i \in 1..Len(rows) |-> NestedGet(rows[i], name, key)]

CountEq(rows, key, s) ==
  Cardinality({i \in 1..Len(rows) : NestedGet(rows[i], "simulation", key) = Str(s)})

\* the exception summarize raises on rows, "none" when it returns
SummarizeExc(rows) ==
  IF \E i \in 1..Len(rows) : NestedRaises(rows[i], "simulation") THEN "AttributeError"
  ELSE IF \E i \in 1..Len(rows) :
            ~Hashable(NestedGet(rows[i], "simulation", "exitType")) THEN "TypeError"
  ELSE IF \E i \in 1..Len(rows) : NestedRaises(rows[i], "risk") THEN "AttributeError"
  ELSE "none"

NoSummary(exc) ==
  [exc |-> exc, n |-> 0, wins |-> 0, win_rate |-> NaN, avg_R |-> NaN,
   med_R |-> NaN, exp_R |-> NaN, profit_factor |-> NaN, avg_return |-> NaN,
   avg_hold_days |-> NaN, target_hit |-> NaN, stop_hit |-> NaN,
   time_exit |-> NaN, avg_rr_at_entry |-> NaN, avg_mae |-> NaN, avg_mfe |-> NaN]

summarize(rows) ==
  IF SummarizeExc(rows) # "none" THEN NoSummary(SummarizeExc(rows))
  ELSE
    LET n == Len(rows)
        wins == CountEq(rows, "result", sWIN)
        R_vals == Column(rows, "simulation", "R")
    IN [exc |-> "none",
        n |-> n,
        wins |-> wins,
        win_rate |-> pct(wins, n),
        avg_R |-> safe_mean(R_vals),
        med_R |-> safe_median(R_vals),
        exp_R |-> safe_mean(R_vals),
        profit_factor |-> profit_factor(rows),
        avg_return |-> safe_mean(Column(rows, "simulation", "returnPct")),
        avg_hold_days |-> safe_mean(Column(rows, "simulation", "holdingDays")),
        target_hit |-> pct(CountEq(rows, "exitType", sTARGET), n),
        stop_hit |-> pct(CountEq(rows, "exitType", sSTOP), n),
        time_exit |-> pct(CountEq(rows, "exitType", sTIME), n),
        avg_rr_at_entry |-> safe_mean(Column(rows, "risk", "rrAtEntry")),
        avg_mae |-> safe_mean(Column(rows, "simulation", "maePct")),
        avg_mfe |-> safe_mean(Column(rows, "simulation", "mfePct"))]

\* ------------------------------------------------------------------ state
VARIABLES
  pc,          \* position of main: start, check_path, load, get_events,
               \* partition, summaries, report, deltas, exited; "imported"
               \* when the module is used as a library
  argc,        \* len(sys.argv)
  path_exists, \* os.path.exists(path)
  data,        \* the parsed JSON document
  events,      \* data.get("events")
  idx,         \* position of the partition loop in events (1-based)
  buy_true,    \* main's buy_true list
  buy_false,   \* main's buy_false list
  s_true,      \* summarize(buy_true)
  s_false,     \* summarize(buy_false)
  deltas,      \* main's deltas dict
  stdout,      \* what was printed to standard output, in order
  stderr,      \* the lines written to standard error
  exit_code,   \* the process exit status, -1 while running
  rows,        \* library use: the list handed to summarize
  summary      \* library use: what summarize(rows) gave

vars == <<pc, argc, path_exists, data, events, idx, buy_true, buy_false,
          s_true, s_false, deltas, stdout, stderr, exit_code, rows, summary>>

mainVars == <<pc, argc, path_exists, data, events, idx, buy_true, buy_false,
              s_true, s_false, deltas, stdout, stderr, exit_code>>

\* ----------------------------------------------------------------- inputs
Meta(version, from, to) == [version |-> version, from |-> from, to |-> to]
NoMeta == Meta(Absent, Absent, Absent)

Doc(top, ev, items, meta) ==
  [top |-> top, events |-> ev, items |-> items, meta |-> meta]
NoData == Doc("unset", Absent, <<>>, NoMeta)

AuxA == <<Num(1), Num(2), Num(-1), Num(2)>>
AuxB == <<Str(sMINUS1), Num(1), Str(sABC), InfLit>>

SimWin == SimMap(Num(2), Str(sWIN), Str(sTARGET), NoAux)
SimLoss == SimMap(Num(-1), Str(sLOSS), Str(sSTOP), NoAux)

\* the elements an events[] array is built from
EventPool ==
  { Rec(SignalMap(Bool(TRUE)), SimWin, RiskOther(Absent)),
    Rec(SignalMap(Bool(TRUE)), SimLoss, RiskMap(Num(2))),
    Rec(SignalMap(Bool(TRUE)), SimOther(Str(sABC)), RiskOther(Absent)),
    Rec(SignalMap(Bool(FALSE)), SimLoss, RiskOther(Absent)),
    Rec(SignalMap(Str(sTRUE)), SimWin, RiskMap(Num(1))),
    Rec(SignalMap(Num(1)), SimMap(Num(1), Str(sWIN), Str(sTIME), AuxA), RiskOther(NoneV)),
    Rec(SignalMap(NoneV), SimOther(NoneV), RiskOther(Absent)),
    Rec(SignalOther(Absent), SimMap(Str(sTWO), Absent, Str(sOTHER), AuxB), RiskOther(Absent)),
    Rec(SignalOther(NoneV), SimOther(Absent), RiskOther(Absent)),
    Rec(SignalOther(Map(1)), SimLoss, RiskOther(Absent)),
    Rec(SignalOther(Str(sABC)), SimWin, RiskOther(Absent)),
    NotARecord }

EventLists == UNION {[1..k -> EventPool] : k \in 0..MaxEvents}

Metas == {NoMeta, Meta(Num(1), Str(sABC), Absent)}

\* what json.load can make of the file
Docs ==
  {Doc("unparsable", Absent, <<>>, NoMeta),
   Doc("array", Absent, <<>>, NoMeta),
   Doc("null", Absent, <<>>, NoMeta)}
  \cup {Doc("object", ev, <<>>, NoMeta) : ev \in {Absent, NoneV, Map(0), Str(sABC)}}
  \cup {Doc("object", List(Len(items)), items, meta) : items \in EventLists, meta \in Metas}

\* the records a caller of the library hands to summarize
RValues ==
  {Num(k) : k \in -1..MaxNum}
  \cup {Str(sTWO), Str(sABC), Str(sINF), NaNLit, NoneV, List(1)}

AggPool ==
  {Rec(SignalOther(Absent), SimMap(x, Absent, Absent, NoAux), RiskOther(Absent)) : x \in RValues}
  \cup
  { Rec(SignalOther(Absent), SimMap(Num(2), Str(sWIN), Str(sTARGET), AuxA), RiskMap(Num(2))),
    Rec(SignalOther(Absent), SimMap(Num(-1), Str(sLOSS), Str(sSTOP), AuxB), RiskMap(Str(sABC))),
    Rec(SignalOther(Absent), SimMap(Num(1), Str(sWIN), Str(sTIME), NoAux), RiskOther(NoneV)),
    Rec(SignalOther(Absent), SimMap(Absent, Str(sOTHER), Str(sOTHER), NoAux), RiskOther(Absent)),
    Rec(SignalOther(Absent), SimOther(Str(<<>>)), RiskOther(List(0))),
    Rec(SignalOther(Absent), SimOther(Str(sABC)), RiskOther(Absent)),
    Rec(SignalOther(Absent), SimOther(NoneV), RiskOther(List(1))),
    Rec(SignalOther(Absent), SimMap(Absent, Absent, List(0), NoAux), RiskOther(Absent)) }

\* ------------------------------------------------------------------- main
Init ==
  /\ pc = "start"
  /\ argc = 0
  /\ path_exists = FALSE
  /\ data = NoData
  /\ events = <<>>
  /\ idx = 1
  /\ buy_true = <<>>
  /\ buy_false = <<>>
  /\ s_true = NoSummary("unset")
  /\ s_false = NoSummary("unset")
  /\ deltas = <<>>
  /\ stdout = <<>>
  /\ stderr = <<>>
  /\ exit_code = -1
  /\ rows = <<>>
  /\ summary = NoSummary("unset")

\* print(msg, file=sys.stderr); sys.exit(code)
Fatal(msg, code) ==
  /\ stderr' = Append(stderr, msg)
  /\ exit_code' = code
  /\ pc' = "exited"

\* an exception nobody catches: the interpreter prints the traceback on
\* standard error and exits with status 1
Uncaught(exc) ==
  /\ stderr' = stderr \o <<"Traceback (most recent call last):", "  File ..., in main", exc>>
  /\ exit_code' = 1
  /\ pc' = "exited"

CheckArgs ==
  /\ pc = "start"
  /\ \E n \in 1..MaxArgc :
       /\ argc' = n
       /\ IF n # 2 THEN Fatal("Usage: python compare_buynow_simple.py path/to/backtest.json", 2)
          ELSE pc' = "check_path" /\ UNCHANGED <<stderr, exit_code>>
  /\ UNCHANGED <<path_exists, data, events, idx, buy_true, buy_false, s_true,
                 s_false, deltas, stdout, rows, summary>>

CheckPath ==
  /\ pc = "check_path"
  /\ \E e \in BOOLEAN :
       /\ path_exists' = e
       /\ IF ~e THEN Fatal("File not found", 1)
          ELSE pc' = "load" /\ UNCHANGED <<stderr, exit_code>>
  /\ UNCHANGED <<argc, data, events, idx, buy_true, buy_false, s_true,
                 s_false, deltas, stdout, rows, summary>>

LoadJSON ==
  /\ pc = "load"
  /\ \E d \in Docs :
       IF d.top = "unparsable"
       THEN Fatal("Failed to read JSON", 1) /\ UNCHANGED data
       ELSE data' = d /\ pc' = "get_events" /\ UNCHANGED <<stderr, exit_code>>
  /\ UNCHANGED <<argc, path_exists, events, idx, buy_true, buy_false, s_true,
                 s_false, deltas, stdout, rows, summary>>

GetEvents ==
  /\ pc = "get_events"
  /\ IF data.top # "object"
     THEN Uncaught("AttributeError") /\ UNCHANGED events
     ELSE IF data.events.t # "list"
     THEN Fatal("No events[] found in JSON.", 1) /\ UNCHANGED events
     ELSE /\ events' = data.items
          /\ pc' = IF data.items = <<>> THEN "summaries" ELSE "partition"
          /\ UNCHANGED <<stderr, exit_code>>
  /\ UNCHANGED <<argc, path_exists, data, idx, buy_true, buy_false, s_true,
                 s_false, deltas, stdout, rows, summary>>

\* the test of the partition loop: signal.buyNow is True
IsBuyNow(r) == NestedGet(r, "signal", "buyNow") = Bool(TRUE)

PartitionStep ==
  /\ pc = "partition"
  /\ idx <= Len(events)
  /\ LET r == events[idx] IN
       IF NestedRaises(r, "signal")
       THEN Uncaught("AttributeError") /\ UNCHANGED <<idx, buy_true, buy_false>>
       ELSE /\ IF IsBuyNow(r)
               THEN buy_true' = Append(buy_true, r) /\ UNCHANGED buy_false
               ELSE buy_false' = Append(buy_false, r) /\ UNCHANGED buy_true
            /\ idx' = idx + 1
            /\ pc' = IF idx = Len(events) THEN "summaries" ELSE "partition"
            /\ UNCHANGED <<stderr, exit_code>>
  /\ UNCHANGED <<argc, path_exists, data, events, s_true, s_false, deltas,
                 stdout, rows, summary>>

Summaries ==
  /\ pc = "summaries"
  /\ LET st == summarize(buy_true)
         sf == summarize(buy_false)
     IN IF st.exc # "none"
        THEN Uncaught(st.exc) /\ UNCHANGED <<s_true, s_false>>
        ELSE IF sf.exc # "none"
        THEN Uncaught(sf.exc) /\ s_true' = st /\ UNCHANGED s_false
        ELSE /\ s_true' = st
             /\ s_false' = sf
             /\ pc' = "report"
             /\ UNCHANGED <<stderr, exit_code>>
  /\ UNCHANGED <<argc, path_exists, data, events, idx, buy_true, buy_false,
                 deltas, stdout, rows, summary>>

Header ==
  <<"BUY NOW COMPARISON REPORT", "==========================">>
  \o (IF data.meta.version.t \notin {"absent", "null"} THEN <<"Version">> ELSE <<>>)
  \o (IF Truthy(data.meta.from) \/ Truthy(data.meta.to) THEN <<"Range">> ELSE <<>>)
  \o <<"Total events", "==========================">>

PrintReport ==
  /\ pc = "report"
  /\ stdout' = stdout \o Header \o <<"Group: buyNow = TRUE", "Group: buyNow = FALSE">>
  /\ pc' = "deltas"
  /\ UNCHANGED <<argc, path_exists, data, events, idx, buy_true, buy_false,
                 s_true, s_false, deltas, stderr, exit_code, rows, summary>>

\* delta without the isfinite test
delta_unchecked(a, b, key) == FSub(a[key], b[key])

\* main.delta(a, b, key)
delta(a, b, key) ==
  LET av == a[key]
      bv == b[key]
  IN IF isfinite(av) /\ isfinite(bv) THEN FSub(av, bv) ELSE NaN

DeltaKeys ==
  {"win_rate", "avg_R", "med_R", "exp_R", "profit_factor", "avg_return",
   "avg_hold_days", "target_hit", "stop_hit", "time_exit", "avg_rr_at_entry",
   "avg_mae", "avg_mfe"}

PrintDeltas ==
  /\ pc = "deltas"
  /\ deltas' = [key \in DeltaKeys |-> delta(s_true, s_false, key)]
  /\ stdout' = Append(stdout, "True - False")
  /\ pc' = "exited"
  /\ exit_code' = 0
  /\ UNCHANGED <<argc, path_exists, data, events, idx, buy_true, buy_false,
                 s_true, s_false, stderr, rows, summary>>

Next ==
  \/ CheckArgs
  \/ CheckPath
  \/ LoadJSON
  \/ GetEvents
  \/ PartitionStep
  \/ Summaries
  \/ PrintReport
  \/ PrintDeltas

Spec == Init /\ [][Next]_vars

\* ------------------------------------------------- summarize as a library
InitAgg ==
  /\ pc = "imported"
  /\ argc = 0
  /\ path_exists = FALSE
  /\ data = NoData
  /\ events = <<>>
  /\ idx = 1
  /\ buy_true = <<>>
  /\ buy_false = <<>>
  /\ s_true = NoSummary("unset")
  /\ s_false = NoSummary("unset")
  /\ deltas = <<>>
  /\ stdout = <<>>
  /\ stderr = <<>>
  /\ exit_code = -1
  /\ rows = <<>>
  /\ summary = summarize(<<>>)

\* the caller appends one record and summarizes the list again; it stops at
\* the first exception
AddRecord ==
  /\ pc = "imported"
  /\ summary.exc = "none"
  /\ Len(rows) < MaxRows
  /\ \E r \in AggPool :
       /\ rows' = Append(rows, r)
       /\ summary' = summarize(rows')
  /\ UNCHANGED mainVars

NextAgg == AddRecord

SpecAgg == InitAgg /\ [][NextAgg]_vars

\* ----------------------------------------------------------------- claims
Summarized == pc = "imported" /\ summary.exc = "none"
RAt(i) == NestedGet(rows[i], "simulation", "R")

\* C1: summarize never raises: whatever the records hold under signal,
\* simulation and risk (absent, null, a mapping or a value of another type)
\* and under the leaf fields, summarize returns a summary.
C1_SummarizeNeverRaises == pc = "imported" => summary.exc = "none"

ExampleTrue == Rec(SignalMap(Bool(TRUE)), SimWin, RiskOther(Absent))
ExampleFalse == Rec(SignalMap(Bool(FALSE)), SimLoss, RiskOther(Absent))
ExampleSummarized ==
  /\ events = <<ExampleTrue, ExampleFalse>>
  /\ pc \in {"report", "deltas"}

ExampleCommon ==
  /\ buy_true = <<ExampleTrue>>
  /\ buy_false = <<ExampleFalse>>
  /\ s_true.n = 1 /\ s_true.wins = 1
  /\ s_true.win_rate = Fin(100, 1)
  /\ s_true.avg_R = Fin(2, 1)
  /\ s_true.profit_factor = Inf
  /\ s_false.n = 1 /\ s_false.wins = 0
  /\ s_false.win_rate = Zero
  /\ s_false.avg_R = Fin(-1, 1)

\* C2 as stated: on the worked two-record example the true group gives n=1,
\* wins=1, win rate 100, avg_R 2, profit factor +infinity and the false
\* group n=1, wins=0, win rate 0, avg_R -1, profit factor NaN.
C2_ExampleAsStated ==
  ExampleSummarized => ExampleCommon /\ s_false.profit_factor = NaN

\* C2 amended: the same example, with the false group's profit factor 0
\* (no gains divided by a loss sum of 1).
C2_Example ==
  ExampleSummarized => ExampleCommon /\ s_false.profit_factor = Zero

C2_Witness == ExampleSummarized /\ pc = "deltas"

\* the R of a record as profit_factor reads it: a failed coercion counts 0
RCoerced(i) == LET x == ToFloat(RAt(i)) IN IF x.k = "err" THEN Zero ELSE x
GainSum == FSum([i \in 1..Len(rows) |-> IF GtZero(RCoerced(i)) THEN RCoerced(i) ELSE Zero])
LossSum == FSum([i \in 1..Len(rows) |-> IF LtZero(RCoerced(i)) THEN FNeg(RCoerced(i)) ELSE Zero])

\* C3: profit_factor is G / L, G the sum of the R > 0 and L the sum of |R|
\* over the R < 0, an R that fails coercion counting 0; with L = 0 it is
\* +infinity when G > 0 and NaN otherwise.  So it is +infinity when every R
\* is positive and a record is present, NaN when no R is present or all
\* are zero.
C3_ProfitFactor ==
  Summarized =>
    /\ summary.profit_factor =
         (IF LossSum = Zero THEN (IF GtZero(GainSum) THEN Inf ELSE NaN)
          ELSE FDiv(GainSum, LossSum))
    /\ (rows # <<>> /\ \A i \in 1..Len(rows) : GtZero(ToFloat(RAt(i))))
         => summary.profit_factor = Inf
    /\ (\A i \in 1..Len(rows) : RAt(i) = NoneV \/ ToFloat(RAt(i)) = Zero)
         => summary.profit_factor = NaN

C3_Witness ==
  /\ Summarized
  /\ Len(rows) = 3
  /\ \E i, j, k \in 1..3 :
       /\ GtZero(ToFloat(RAt(i)))
       /\ LtZero(ToFloat(RAt(j)))
       /\ ToFloat(RAt(k)).k = "err"
  /\ summary.profit_factor = Fin(2, 1)

\* the document holds an events list of JSON objects
HasEvents ==
  /\ data.top = "object"
  /\ data.events.t = "list"
  /\ \A i \in 1..Len(data.items) : data.items[i].t = "map"
BuyNowIsTrue(r) ==
  /\ r.t = "map"
  /\ r.signal.v.t = "map"
  /\ r.signal.m.buyNow = Bool(TRUE)
NotBuyNowIsTrue(r) == ~BuyNowIsTrue(r)
Partitioned ==
  /\ events = data.items
  /\ buy_true = SelectSeq(events, BuyNowIsTrue)
  /\ buy_false = SelectSeq(events, NotBuyNowIsTrue)
  /\ Len(buy_true) + Len(buy_false) = Len(events)
\* C4: the partition is exhaustive and disjoint for every events list: once
\* main is done with the partition loop, every event is in exactly one
\* group, the true group holding exactly the events whose signal.buyNow is
\* the boolean true, each group in input order, and the group sizes add up
\* to len(events).
C4_PartitionExhaustive ==
  (HasEvents /\ pc \in {"summaries", "report", "deltas", "exited"}) => Partitioned

\* the survivors of the safe mean / median policy among the values xs
Survivors(xs) == {i \in 1..Len(xs) : isfinite(ToFloat(xs[i]))}
RECURSIVE NumSum(_, _)
NumSum(S, xs) ==
  IF S = {} THEN 0
  ELSE LET i == CHOOSE j \in S : TRUE
       IN ToFloat(xs[i]).num + NumSum(S \ {i}, xs)
IsSafeMean(m, xs) ==
  IF Survivors(xs) = {} THEN m = NaN
  ELSE m.k = "fin" /\ m.num * Cardinality(Survivors(xs)) = m.den * NumSum(Survivors(xs), xs)
Val(xs, i) == ToFloat(xs[i]).num
IsSafeMedian(m, xs) ==
  LET S == Survivors(xs)
      n == Cardinality(S)
  IN IF S = {} THEN m = NaN
     ELSE IF n % 2 = 1 THEN
       /\ m.k = "fin" /\ m.den = 1
       /\ \E i \in S : Val(xs, i) = m.num
       /\ 2 * Cardinality({i \in S : Val(xs, i) < m.num}) < n
       /\ 2 * Cardinality({i \in S : Val(xs, i) > m.num}) < n
     ELSE
       /\ m.k = "fin"
       /\ \E i, j \in S :
            /\ i # j
            /\ Val(xs, i) <= Val(xs, j)
            /\ 2 * m.num = m.den * (Val(xs, i) + Val(xs, j))
            /\ 2 * (Cardinality({k \in S \ {i, j} : Val(xs, k) <= Val(xs, i)}) + 1) >= n
            /\ 2 * (Cardinality({k \in S \ {i, j} : Val(xs, k) >= Val(xs, j)}) + 1) >= n

\* C5: each mean field is the arithmetic mean, and med_R the median, of
\* exactly the field values that coerce to a finite number; NaN when none
\* does; exp_R equals avg_R.
C5_SafeMeanMedian ==
  Summarized =>
    /\ IsSafeMean(summary.avg_R, Column(rows, "simulation", "R"))
    /\ IsSafeMean(summary.exp_R, Column(rows, "simulation", "R"))
    /\ summary.exp_R = summary.avg_R
    /\ IsSafeMedian(summary.med_R, Column(rows, "simulation", "R"))
    /\ IsSafeMean(summary.avg_return, Column(rows, "simulation", "returnPct"))
    /\ IsSafeMean(summary.avg_hold_days, Column(rows, "simulation", "holdingDays"))
    /\ IsSafeMean(summary.avg_rr_at_entry, Column(rows, "risk", "rrAtEntry"))
    /\ IsSafeMean(summary.avg_mae, Column(rows, "simulation", "maePct"))
    /\ IsSafeMean(summary.avg_mfe, Column(rows, "simulation", "mfePct"))

C5_Witness ==
  /\ Summarized
  /\ Len(rows) = 3
  /\ Cardinality(Survivors(Column(rows, "simulation", "R"))) = 2
  /\ \E i \in 1..3 : ToFloat(RAt(i)) \in {NaN, Inf}
  /\ summary.avg_R = Fin(1, 2)
  /\ summary.med_R = Fin(1, 2)

\* the record the last AddRecord step appended
Added == rows'[Len(rows')]
AddedR == NestedGet(Added, "simulation", "R")
AddStep ==
  /\ pc = "imported"
  /\ Len(rows') = Len(rows) + 1
  /\ summary.exc = "none"
  /\ summary'.exc = "none"
Unaffected ==
  /\ summary'.n = summary.n + 1
  /\ summary'.avg_R = summary.avg_R
  /\ summary'.med_R = summary.med_R

\* C6 as stated: adding a record whose simulation.R is a string (any
\* string), null, absent, a list or a mapping raises n by exactly 1 and
\* leaves avg_R and med_R unchanged.
C6_AnyStringExcluded ==
  [][(AddStep /\ AddedR.t \in {"str", "null", "list", "map"}) => Unaffected]_vars

\* C6 amended: the same for a record whose simulation.R is null, absent, a
\* list, a mapping, or a string that float() does not turn into a finite
\* number; a numeric string such as "2" is averaged like the number 2.
C6_NonNumericExcluded ==
  [][(AddStep /\ AddedR.t \in {"str", "null", "list", "map"}
        /\ ~isfinite(ToFloat(AddedR))) => Unaffected]_vars

C6_Witness ==
  /\ Summarized
  /\ Len(rows) = 3
  /\ RAt(3) = Str(sABC)
  /\ summary.n = 3
  /\ summary.avg_R = Fin(1, 2)
  /\ summary.med_R = Fin(1, 2)

Reported == pc = "exited" /\ exit_code = 0

\* true_value - false_value of two finite floats
IsDifference(d, a, b) ==
  /\ d.k = "fin"
  /\ d.num * a.den * b.den = d.den * (a.num * b.den - b.num * a.den)
DeltaRight(key) ==
  IF s_true[key].k = "fin" /\ s_false[key].k = "fin"
  THEN IsDifference(deltas[key], s_true[key], s_false[key])
  ELSE deltas[key] = NaN

\* C7 as stated: the driver computes a delta for every numeric field of the
\* summary, n and wins included, each true - false when both are finite and
\* NaN otherwise.
C7_DeltaForEveryField ==
  Reported =>
    /\ DeltaKeys \cup {"n", "wins"} \subseteq DOMAIN deltas
    /\ \A key \in DeltaKeys : DeltaRight(key)

\* C7 amended: the driver computes a delta for the thirteen float fields of
\* the summary (every field but n and wins), each true - false when both
\* sides are finite and NaN when a side is NaN or infinite.
C7_Deltas ==
  Reported =>
    /\ DOMAIN deltas = DeltaKeys
    /\ \A key \in DeltaKeys : DeltaRight(key)

C7_Witness ==
  /\ Reported
  /\ s_true.profit_factor = Inf
  /\ s_false.profit_factor = Zero
  /\ deltas.profit_factor = NaN
  /\ deltas.avg_R = Fin(3, 1)
  /\ deltas.avg_rr_at_entry = NaN

UsageError == argc # 2
MissingFile == argc = 2 /\ ~path_exists
Unparsable == argc = 2 /\ path_exists /\ data.top = "unset"
InvalidPayload ==
  \/ data.top \notin {"unset", "object"}
  \/ data.top = "object" /\ data.events.t # "list"
OneLineDiagnostic == Len(stderr) = 1 /\ stdout = <<>>

\* C8: every fatal input condition ends the run with one one-line
\* diagnostic on standard error, nothing on standard output and its exit
\* code (usage 2; missing file, unparsable JSON, events absent or not a
\* list, a top level that is no object: 1); every other run prints the
\* report and exits 0.
C8_ExitCodes ==
  pc = "exited" =>
    /\ UsageError => exit_code = 2 /\ OneLineDiagnostic
    /\ MissingFile => exit_code = 1 /\ OneLineDiagnostic
    /\ Unparsable => exit_code = 1 /\ OneLineDiagnostic
    /\ InvalidPayload => exit_code = 1 /\ OneLineDiagnostic
    /\ ~(UsageError \/ MissingFile \/ Unparsable \/ InvalidPayload) =>
         exit_code = 0 /\ stderr = <<>> /\ Len(stdout) >= 7

\* C9: summarize of the empty list returns n = 0, wins = 0 and NaN in every
\* percentage, mean and median field and in profit_factor, without raising.
C9_EmptyList ==
  (pc = "imported" /\ rows = <<>>) =>
    /\ summary.exc = "none"
    /\ summary.n = 0 /\ summary.wins = 0
    /\ \A key \in DeltaKeys : summary[key] = NaN

C9_Witness == pc = "imported" /\ rows = <<>> /\ summary.exc = "none"

\* exact sums and comparisons of binary64 values given by Binary64
RECURSIVE Zeros(_)
Zeros(k) == IF k = 0 THEN <<>> ELSE <<0>> \o Zeros(k - 1)
Pad(x, k) == [ip |-> x.ip, bits |-> x.bits \o Zeros(k - Len(x.bits))]
\* a + b for two bit strings of one length; c[i] is the carry into place i
AddBits(a, b) ==
  LET n == Len(a)
      c[i \in 0..n] == IF i = n THEN 0 ELSE (a[i + 1] + b[i + 1] + c[i + 1]) \div 2
  IN [bits |-> [i \in 1..n |-> (a[i] + b[i] + c[i]) % 2], carry |-> c[0]]
Max2(a, b) == IF a > b THEN a ELSE b
ExactSum(x, y) ==
  LET k == Max2(Len(x.bits), Len(y.bits))
      s == AddBits(Pad(x, k).bits, Pad(y, k).bits)
  IN [ip |-> x.ip + y.ip + s.carry, bits |-> s.bits]
NoFraction(x) == \A i \in 1..Len(x.bits) : x.bits[i] = 0
AtMost(x, n) == x.ip < n \/ (x.ip = n /\ NoFraction(x))
Exactly(x, n) == x.ip = n /\ NoFraction(x)

ExitTypeAt(i) == NestedGet(rows[i], "simulation", "exitType")
ExitCount(s) == Cardinality({i \in 1..Len(rows) : ExitTypeAt(i) = Str(s)})
AllExitsKnown ==
  \A i \in 1..Len(rows) : ExitTypeAt(i) \in {Str(sTARGET), Str(sSTOP), Str(sTIME)}
ExitFloatSum ==
  ExactSum(ExactSum(Binary64(summary.target_hit), Binary64(summary.stop_hit)),
           Binary64(summary.time_exit))
CountsAndRates ==
  /\ 0 <= summary.wins /\ summary.wins <= summary.n
  /\ summary.win_rate.k = "fin"
  /\ summary.win_rate.num * summary.n = summary.win_rate.den * 100 * summary.wins
  /\ \A key \in {"win_rate", "target_hit", "stop_hit", "time_exit"} :
       /\ summary[key].k = "fin" /\ summary[key].num >= 0
       /\ AtMost(Binary64(summary[key]), 100)

\* C10 as stated: for a non-empty list 0 <= wins <= n, win_rate_% is
\* 100*wins/n in [0,100], each exit percentage is in [0,100], the three add
\* up to at most 100, and to exactly 100 exactly when every exitType is
\* TARGET, STOP or TIME.
C10_ExitSumAsStated ==
  (Summarized /\ rows # <<>>) =>
    /\ CountsAndRates
    /\ AtMost(ExitFloatSum, 100)
    /\ Exactly(ExitFloatSum, 100) <=> AllExitsKnown

\* C10 amended: for a non-empty list 0 <= wins <= n, win_rate_% is
\* 100*wins/n in [0,100], each exit percentage is in [0,100] and is the
\* float nearest 100*c/n for the number c of records with that exitType;
\* the three counts add up to at most n, and to exactly n exactly when every
\* exitType is TARGET, STOP or TIME (the floats themselves add up to 100
\* only up to rounding).
C10_ExitCounts ==
  (Summarized /\ rows # <<>>) =>
    /\ CountsAndRates
    /\ summary.target_hit = Fin(100 * ExitCount(sTARGET), summary.n)
    /\ summary.stop_hit = Fin(100 * ExitCount(sSTOP), summary.n)
    /\ summary.time_exit = Fin(100 * ExitCount(sTIME), summary.n)
    /\ ExitCount(sTARGET) + ExitCount(sSTOP) + ExitCount(sTIME) <= summary.n
    /\ (ExitCount(sTARGET) + ExitCount(sSTOP) + ExitCount(sTIME) = summary.n)
         <=> AllExitsKnown

C10_Witness ==
  /\ Summarized
  /\ Len(rows) = 3
  /\ ExitCount(sTARGET) = 1 /\ ExitCount(sSTOP) = 1 /\ ExitCount(sTIME) = 1
  /\ summary.wins = 2
  /\ ~AtMost(ExitFloatSum, 100)

====
